---------------------------- MODULE Spec2Model ----------------------------
(***************************************************************************)
(* The Alpha Vantage MCP server of src/index.ts: the call-tool dispatcher, *)
(* its four handlers and the serving process around them.                  *)
(*                                                                         *)
(* JavaScript values are tagged records [t, s]: t is the kind of value     *)
(* ("str", "undef", "null") and s the characters of a string.  Texts are   *)
(* TLA+ strings built with \o exactly as the template literals build them. *)
(***************************************************************************)
EXTENDS Integers, Sequences, FiniteSets, Bags, TLC

VARIABLES
    apiKey,        \* process.env.ALPHAVANTAGE_API_KEY, a JavaScript value
    phase,         \* "starting", "serving" or "exited": main() and its catch
    inflight,      \* bag of the requests suspended at `await axios.get`
    last,          \* the invocation that settled last: request, reply, outcome
    accepted,      \* call-tool requests handed to callToolHandler so far
    httpRequests,  \* axios.get calls issued so far
    configErrors,  \* times "ALPHAVANTAGE_API_KEY is not set" was thrown
    everConcurrent \* history: two invocations have been in flight at once

vars == <<apiKey, phase, inflight, last, accepted, httpRequests, configErrors,
          everConcurrent>>

----------------------------------------------------------------------------
(* Bounds of the model. *)

\* Call-tool requests accepted in one behaviour.
MaxInvocations == 2

\* Invocations suspended on their upstream request at the same time.
MaxInFlight == 2

----------------------------------------------------------------------------
(* JavaScript values. *)

Str(s) == [t |-> "str", s |-> s]

Undefined == [t |-> "undef", s |-> ""]

Null == [t |-> "null", s |-> ""]

\* `${v}` in a template literal: ToString of the value.
ToStr(v) ==
    CASE v.t = "undef" -> "undefined"
      [] v.t = "null"  -> "null"
      [] OTHER         -> v.s

\* ToBoolean of a value, as `!v` reads it: undefined, null and "" are falsy.
Truthy(v) == v.t = "str" /\ v.s # ""

\* An error return that lost its isError: true.
ErrorResultUnflagged(text) ==
    [kind |-> "result", text |-> text, isError |-> "absent"]

\* The outcomes of an async function: a returned ToolResult (isError is
\* "true" where the object literal sets isError: true and "absent" where the
\* literal has no isError key), or a rejection with an error message.
ErrorResult(text) == [kind |-> "result", text |-> text, isError |-> "true"]

TextResult(text) == [kind |-> "result", text |-> text, isError |-> "absent"]

Thrown(message) == [kind |-> "thrown", text |-> message, isError |-> "absent"]

NoOutcome == [kind |-> "none", text |-> "", isError |-> "absent"]

\* Inside a try block: the block either returns a result or throws an Error
\* with a message.
Return(result) == [thrown |-> FALSE, message |-> "", result |-> result]

Throw(message) == [thrown |-> TRUE, message |-> message, result |-> NoOutcome]

\* Error.prototype.toString, which `new Error(e)` applies to its argument to
\* make the new error's message: name and message joined by ": ".
ErrorToString(e) ==
    IF e.message = "" THEN e.name
    ELSE IF e.name = "" THEN e.message
    ELSE e.name \o ": " \o e.message

\* Array.prototype.join() with its default separator, the comma.
RECURSIVE JoinComma(_)
JoinComma(lines) ==
    IF lines = <<>> THEN ""
    ELSE IF Len(lines) = 1 THEN lines[1]
    ELSE lines[1] \o "," \o JoinComma(Tail(lines))

\* Array.prototype.join("\n") over a sequence of strings.
RECURSIVE JoinLines(_)
JoinLines(lines) ==
    IF lines = <<>> THEN ""
    ELSE IF Len(lines) = 1 THEN lines[1]
    ELSE lines[1] \o "\n" \o JoinLines(Tail(lines))

----------------------------------------------------------------------------
(* The argument bag of a request: req.params.arguments. *)

Bag(ticker, infoType, date, fromCurrency, toCurrency) ==
    [present |-> TRUE, ticker |-> ticker, infoType |-> infoType, date |-> date,
     fromCurrency |-> fromCurrency, toCurrency |-> toCurrency]

\* {}: a bag with none of the fields.
EmptyArgs == Bag(Undefined, Undefined, Undefined, Undefined, Undefined)

\* No `arguments` member at all: req.params.arguments is undefined.
AbsentArgs == [EmptyArgs EXCEPT !.present = FALSE]

----------------------------------------------------------------------------
(* The upstream reply: axios.get resolves with response.data or rejects.   *)

\* One record of the daily time series, or null in its place.
Ohlcv(o, h, l, c, v) ==
    [t |-> "obj", open |-> o, high |-> h, low |-> l, close |-> c, volume |-> v]

NullOhlcv == [Ohlcv(Undefined, Undefined, Undefined, Undefined, Undefined)
                EXCEPT !.t = "null"]

UndefinedOhlcv == [NullOhlcv EXCEPT !.t = "undef"]

\* response.data["Time Series (Daily)"]: absent, or an object whose own
\* string keys are kept in the order of the document.
NoSeries == [t |-> "undef", entries |-> <<>>]

Series(entries) == [t |-> "obj", entries |-> entries]

\* response.data["data"] / response.data["holdings"]: undefined, null or an array.
NoList == [t |-> "undef", items |-> <<>>]

NullList == [t |-> "null", items |-> <<>>]

List(items) == [t |-> "arr", items |-> items]

\* response.data["Realtime Currency Exchange Rate"]: undefined or an object.
NoRate == [t |-> "undef", rate |-> Undefined]

Rate(r) == [t |-> "obj", rate |-> r]

Data(series, data, holdings, rate) ==
    [series |-> series, data |-> data, holdings |-> holdings, rate |-> rate]

NoError == [name |-> "", message |-> ""]

Resolved(data) == [ok |-> TRUE, err |-> NoError, data |-> data]

Rejected(name, message) ==
    [ok |-> FALSE, err |-> [name |-> name, message |-> message],
     data |-> Data(NoSeries, NoList, NoList, NoRate)]


\* One element of the dividend array, or null in its place.
Dividend(date, amount) ==
    [t |-> "obj", ex_dividend_date |-> date, amount |-> amount]

\* One element of the holdings array, or null in its place.
Holding(description, symbol, weight) ==
    [t |-> "obj", description |-> description, symbol |-> symbol,
     weight |-> weight]

----------------------------------------------------------------------------
(* The messages of the TypeErrors the handlers' property reads raise (V8). *)

DestructureOfUndefined(field) ==
    "Cannot destructure property '" \o field
        \o "' of 'req.params.arguments' as it is undefined."

KeysOfUndefined == "Cannot convert undefined or null to object"

ReadOfUndefined(key) ==
    "Cannot read properties of undefined (reading '" \o key \o "')"

ReadOfNull(key) == "Cannot read properties of null (reading '" \o key \o "')"

----------------------------------------------------------------------------
(* handleGetTickerOhlcv *)

\* Object.keys(series)[0]: the first own key, undefined for an empty object.
FirstKey(series) ==
    IF series.entries = <<>> THEN Undefined ELSE Str(series.entries[1].key)

\* series[key]: the value stored under the string of the key, else undefined.
Lookup(series, key) ==
    LET hits == {i \in DOMAIN series.entries :
                    series.entries[i].key = ToStr(key)}
    IN  IF hits = {} THEN UndefinedOhlcv
        ELSE series.entries[CHOOSE i \in hits : TRUE].val

\* The resolution taking the last key of the mapping instead of the first.
ActualDateLastKey(date, series) ==
    IF date = Str("")
    THEN IF series.entries = <<>> THEN Undefined
         ELSE Str(series.entries[Len(series.entries)].key)
    ELSE date

\* let actualDate = date; if (actualDate === "") actualDate = first key.
ActualDate(date, series) ==
    IF date = Str("") THEN FirstKey(series) ELSE date

\* The switch without its default branch: an infoType no case matches leaves
\* price unassigned and nothing is thrown.
InfoTypeSwitchNoDefault(infoType, ohlcv) ==
    CASE infoType = Str("open") ->
            [thrown |-> FALSE, price |-> ohlcv.open, message |-> ""]
      [] infoType = Str("high") ->
            [thrown |-> FALSE, price |-> ohlcv.high, message |-> ""]
      [] infoType = Str("low") ->
            [thrown |-> FALSE, price |-> ohlcv.low, message |-> ""]
      [] infoType = Str("close") ->
            [thrown |-> FALSE, price |-> ohlcv.close, message |-> ""]
      [] infoType = Str("volume") ->
            [thrown |-> FALSE, price |-> ohlcv.volume, message |-> ""]
      [] OTHER ->
            [thrown |-> FALSE, price |-> Undefined, message |-> ""]

\* The switch with the prices of its high and low cases exchanged.
InfoTypeSwitchSwapped(infoType, ohlcv) ==
    CASE infoType = Str("open") ->
            [thrown |-> FALSE, price |-> ohlcv.open, message |-> ""]
      [] infoType = Str("high") ->
            [thrown |-> FALSE, price |-> ohlcv.low, message |-> ""]
      [] infoType = Str("low") ->
            [thrown |-> FALSE, price |-> ohlcv.high, message |-> ""]
      [] infoType = Str("close") ->
            [thrown |-> FALSE, price |-> ohlcv.close, message |-> ""]
      [] infoType = Str("volume") ->
            [thrown |-> FALSE, price |-> ohlcv.volume, message |-> ""]
      [] OTHER ->
            [thrown |-> TRUE, price |-> Undefined,
             message |-> "Invalid infoType: " \o ToStr(infoType)]

\* The switch over infoType: the price it selects, or the Error it throws.
InfoTypeSwitch(infoType, ohlcv) ==
    CASE infoType = Str("open") ->
            [thrown |-> FALSE, price |-> ohlcv.open, message |-> ""]
      [] infoType = Str("high") ->
            [thrown |-> FALSE, price |-> ohlcv.high, message |-> ""]
      [] infoType = Str("low") ->
            [thrown |-> FALSE, price |-> ohlcv.low, message |-> ""]
      [] infoType = Str("close") ->
            [thrown |-> FALSE, price |-> ohlcv.close, message |-> ""]
      [] infoType = Str("volume") ->
            [thrown |-> FALSE, price |-> ohlcv.volume, message |-> ""]
      [] OTHER ->
            [thrown |-> TRUE, price |-> Undefined,
             message |-> "Invalid infoType: " \o ToStr(infoType)]

\* The outer try block, from the settled axios.get to the success return.
OhlcvTry(a, reply) ==
    IF ~reply.ok THEN Throw(ErrorToString(reply.err))
    ELSE
      LET series == reply.data.series IN
      IF a.date = Str("") /\ series.t # "obj" THEN Throw(KeysOfUndefined)
      ELSE
        LET actualDate == ActualDate(a.date, series) IN
        IF series.t # "obj" THEN Throw(ReadOfUndefined(ToStr(actualDate)))
        ELSE
          LET ohlcv == Lookup(series, actualDate) IN
          IF ohlcv.t # "obj"
          THEN Return(ErrorResult("No data found for " \o ToStr(a.ticker)
                                    \o " on " \o ToStr(actualDate) \o "."))
          ELSE
            LET sw == InfoTypeSwitch(a.infoType, ohlcv) IN
            IF sw.thrown THEN Throw(sw.message)
            ELSE Return(TextResult("The " \o ToStr(a.infoType) \o " for "
                                     \o ToStr(a.ticker) \o " on "
                                     \o ToStr(actualDate) \o " is "
                                     \o ToStr(sw.price)))

\* The handler from the point where axios.get settles: the try block and
\* the catch that turns whatever it throws into an error result.
handleGetTickerOhlcv(req, reply) ==
    LET a == req.arguments
        r == OhlcvTry(a, reply)
    IN  IF r.thrown
        THEN ErrorResult("Failed to get the " \o ToStr(a.infoType)
                           \o " price for " \o ToStr(a.ticker)
                           \o ". Error: " \o r.message)
        ELSE r.result

----------------------------------------------------------------------------
(* handleGetTickerDividend *)

DividendLine(item) ==
    "Ex-Dividend Date: " \o ToStr(item.ex_dividend_date)
        \o ", Amount: " \o ToStr(item.amount)

\* dividendHistory.map(...).join("\n"); reading a field of a null element
\* throws.
DividendTry(a, reply) ==
    IF ~reply.ok THEN Throw(ErrorToString(reply.err))
    ELSE
      LET dividendHistory == reply.data.data IN
      IF dividendHistory.t # "arr"
      THEN Return(ErrorResult("No dividend data found for "
                                \o ToStr(a.ticker) \o "."))
      ELSE IF \E i \in DOMAIN dividendHistory.items :
                    dividendHistory.items[i].t = "null"
      THEN Throw(ReadOfNull("ex_dividend_date"))
      ELSE
        LET dividends == JoinLines([i \in DOMAIN dividendHistory.items |->
                                      DividendLine(dividendHistory.items[i])])
        IN  Return(TextResult("Dividend history for " \o ToStr(a.ticker)
                                \o ":\n" \o dividends))

handleGetTickerDividend(req, reply) ==
    LET a == req.arguments
        r == DividendTry(a, reply)
    IN  IF r.thrown
        THEN ErrorResult("Failed to get the dividend data for "
                           \o ToStr(a.ticker) \o ". Error: " \o r.message)
        ELSE r.result

----------------------------------------------------------------------------
(* handleGetEtfHoldings *)

HoldingLine(item) ==
    "Holding: " \o ToStr(item.description) \o " (" \o ToStr(item.symbol)
        \o "), Weight: " \o ToStr(item.weight)

HoldingsTry(a, reply) ==
    IF ~reply.ok THEN Throw(ErrorToString(reply.err))
    ELSE
      LET holdingsData == reply.data.holdings IN
      IF holdingsData.t # "arr"
      THEN Return(ErrorResult("No holdings data found for "
                                \o ToStr(a.ticker) \o "."))
      ELSE IF \E i \in DOMAIN holdingsData.items :
                    holdingsData.items[i].t = "null"
      THEN Throw(ReadOfNull("description"))
      ELSE
        LET holdings == JoinLines([i \in DOMAIN holdingsData.items |->
                                     HoldingLine(holdingsData.items[i])])
        IN  Return(TextResult("Holdings for " \o ToStr(a.ticker)
                                \o ":\n" \o holdings))

handleGetEtfHoldings(req, reply) ==
    LET a == req.arguments
        r == HoldingsTry(a, reply)
    IN  IF r.thrown
        THEN ErrorResult("Failed to get the holdings data for "
                           \o ToStr(a.ticker) \o ". Error: " \o r.message)
        ELSE r.result

----------------------------------------------------------------------------
(* handleGetExchangeRate *)

\* The try block with the two currencies exchanged in its texts.
ExchangeTrySwapped(a, reply) ==
    IF ~reply.ok THEN Throw(reply.err.message)
    ELSE
      LET priceData == reply.data.rate IN
      IF priceData.t # "obj"
      THEN Return(ErrorResult("Could not retrieve exchange rate for "
                                \o ToStr(a.toCurrency) \o " to "
                                \o ToStr(a.fromCurrency) \o "."))
      ELSE Return(TextResult("The exchange rate from "
                               \o ToStr(a.toCurrency) \o " to "
                               \o ToStr(a.fromCurrency) \o " is "
                               \o ToStr(priceData.rate)))

\* The single try block: a rejected axios.get reaches the catch as it is,
\* so the catch reads the message of the upstream error itself.
ExchangeTry(a, reply) ==
    IF ~reply.ok THEN Throw(reply.err.message)
    ELSE
      LET priceData == reply.data.rate IN
      IF priceData.t # "obj"
      THEN Return(ErrorResult("Could not retrieve exchange rate for "
                                \o ToStr(a.fromCurrency) \o " to "
                                \o ToStr(a.toCurrency) \o "."))
      ELSE Return(TextResult("The exchange rate from "
                               \o ToStr(a.fromCurrency) \o " to "
                               \o ToStr(a.toCurrency) \o " is "
                               \o ToStr(priceData.rate)))

handleGetExchangeRate(req, reply) ==
    LET a == req.arguments
        r == ExchangeTry(a, reply)
    IN  IF r.thrown
        THEN ErrorResult("Failed to get the exchange rate for "
                           \o ToStr(a.fromCurrency) \o " to "
                           \o ToStr(a.toCurrency) \o ". Error: " \o r.message)
        ELSE r.result

----------------------------------------------------------------------------
(* callToolHandler *)

\* The case labels of the switch over req.params.name.
RegisteredTools ==
    {"get_ticker_ohlcv", "get_ticker_dividend", "get_etf_holdings",
     "get_exchange_rate"}

\* The check as `apiKey === undefined` would make it: an empty key passes.
KeyUndefinedOnly(key) == key.t = "undef"

\* if (!apiKey) throw new Error("ALPHAVANTAGE_API_KEY is not set").
KeyMissing(key) == ~Truthy(key)

ConfigError == "ALPHAVANTAGE_API_KEY is not set"

\* The default branch without its isError: true.
ToolNotFoundUnflagged(name) == TextResult("Tool " \o name \o " not found.")

\* The default branch of the switch.
ToolNotFound(name) == ErrorResult("Tool " \o name \o " not found.")

\* The switch compares req.params.name to each case label with ===.
IsRegistered(name) == name \in RegisteredTools

\* The first property each handler destructures from req.params.arguments,
\* outside its try block: destructuring undefined throws a TypeError.
FirstDestructured(name) ==
    IF name = "get_exchange_rate" THEN "fromCurrency" ELSE "ticker"

\* The handlers behind a counter kept across invocations: from the second
\* upstream request on, the answer is a rate-limit error.
HandlerResultThrottled(req, reply) ==
    IF httpRequests > 1 THEN ErrorResult("Rate limit reached.")
    ELSE CASE req.name = "get_ticker_ohlcv" ->
                  handleGetTickerOhlcv(req, reply)
           [] req.name = "get_ticker_dividend" ->
                  handleGetTickerDividend(req, reply)
           [] req.name = "get_etf_holdings" ->
                  handleGetEtfHoldings(req, reply)
           [] req.name = "get_exchange_rate" ->
                  handleGetExchangeRate(req, reply)

\* The handler the switch selects, resumed when its axios.get settles.
HandlerResult(req, reply) ==
    CASE req.name = "get_ticker_ohlcv"    -> handleGetTickerOhlcv(req, reply)
      [] req.name = "get_ticker_dividend" -> handleGetTickerDividend(req, reply)
      [] req.name = "get_etf_holdings"    -> handleGetEtfHoldings(req, reply)
      [] req.name = "get_exchange_rate"   -> handleGetExchangeRate(req, reply)

----------------------------------------------------------------------------
(* The requests and upstream replies the model draws from. *)

D1 == "2024-01-02"

D2 == "2024-01-03"

ToolNames == RegisteredTools \cup {"Get_Ticker_Ohlcv", "get_quote"}

InfoTypes == {"open", "high", "low", "close", "volume", "vwap"}

OhlcvBags ==
    {Bag(Str("AAPL"), Str(i), Str(d), Undefined, Undefined) :
        i \in InfoTypes, d \in {"", D1, D2}}

TickerBags == {Bag(Str("AAPL"), Undefined, Undefined, Undefined, Undefined)}

ExchangeBags == {Bag(Undefined, Undefined, Undefined, Str("USD"), Str("EUR"))}

Bags(name) ==
    {EmptyArgs, AbsentArgs} \cup
    (CASE name = "get_ticker_ohlcv" -> OhlcvBags
       [] name = "get_exchange_rate" -> ExchangeBags
       [] OTHER -> TickerBags)

R1 == Ohlcv(Str("185.10"), Str("186.20"), Str("184.30"), Str("185.64"),
            Str("82488700"))

R2 == Ohlcv(Str("184.22"), Str("185.88"), Str("183.43"), Str("184.25"),
            Str("58414500"))

\* A record that lacks its close and volume fields.
R3 == Ohlcv(Str("184.22"), Str("185.88"), Str("183.43"), Undefined, Undefined)

Entry(key, val) == [key |-> key, val |-> val]

SeriesSet ==
    {NoSeries, Series(<<>>),
     Series(<<Entry(D1, R1)>>),
     Series(<<Entry(D2, R2), Entry(D1, R1)>>),
     Series(<<Entry(D1, R1), Entry(D2, R2)>>),
     Series(<<Entry(D1, NullOhlcv)>>),
     Series(<<Entry(D2, R3)>>)}

Div1 == Dividend(Str("2024-02-09"), Str("0.24"))

Div2 == Dividend(Str("2023-11-10"), Str("0.25"))

NullDividend == [Dividend(Undefined, Undefined) EXCEPT !.t = "null"]

DividendLists ==
    {NoList, NullList, List(<<>>), List(<<Div1>>), List(<<Div1, Div2>>),
     List(<<Div2, Div1>>), List(<<Dividend(Str("2024-02-09"), Undefined)>>),
     List(<<Div1, NullDividend>>)}

Hold1 == Holding(Str("NVIDIA CORP"), Str("NVDA"), Str("0.0779"))

Hold2 == Holding(Str("APPLE INC"), Str("AAPL"), Str("0.0702"))

NullHolding == [Holding(Undefined, Undefined, Undefined) EXCEPT !.t = "null"]

HoldingLists ==
    {NoList, NullList, List(<<>>), List(<<Hold1>>), List(<<Hold1, Hold2>>),
     List(<<Hold2, Hold1>>),
     List(<<Holding(Str("n/a"), Undefined, Str("0.01"))>>),
     List(<<Hold1, NullHolding>>)}

Rates == {NoRate, Rate(Str("0.9123")), Rate(Undefined)}

\* The errors axios.get rejects with.
Rejections ==
    {Rejected("AxiosError", "Network Error"),
     Rejected("AxiosError", "Request failed with status code 500"),
     Rejected("Error", "socket hang up")}

\* What the endpoint a handler queries can answer.
Replies(name) ==
    Rejections \cup
    (CASE name = "get_ticker_ohlcv" ->
            {Resolved(Data(s, NoList, NoList, NoRate)) : s \in SeriesSet}
       [] name = "get_ticker_dividend" ->
            {Resolved(Data(NoSeries, l, NoList, NoRate)) : l \in DividendLists}
       [] name = "get_etf_holdings" ->
            {Resolved(Data(NoSeries, NoList, l, NoRate)) : l \in HoldingLists}
       [] OTHER ->
            {Resolved(Data(NoSeries, NoList, NoList, r)) : r \in Rates})

----------------------------------------------------------------------------
(* The tool registry and listToolsHandler. *)

\* One property of an input schema.  enum is <<>> and pattern "" where the
\* property has none.
Field(name, type, description, enum, pattern) ==
    [name |-> name, type |-> type, description |-> description,
     enum |-> enum, pattern |-> pattern]

Descriptor(name, description, fields) ==
    [name |-> name, description |-> description, fields |-> fields]

DatePattern == "^\\d{4}-\\d{2}-\\d{2}$"

InfoTypeEnum == <<"open", "close", "high", "low", "volume">>

getTickerOhlcvDefinition ==
    Descriptor("get_ticker_ohlcv",
        "Get specific ticker OHLCV data (Open, High, Low, Close, Volume)",
        << Field("ticker", "string",
                 "The ticker symbol to get the price for (e.g. AAPL)",
                 <<>>, ""),
           Field("infoType", "string",
                 "The type of ticker information to get (open, close, high, low, volume)",
                 InfoTypeEnum, ""),
           Field("date", "string",
                 "The date for which to get the OHLCV data (YYYY-MM-DD)",
                 <<>>, DatePattern) >>)

getTickerDividendDefinition ==
    Descriptor("get_ticker_dividend",
        "Get dividend data for a specific ticker",
        << Field("ticker", "string",
                 "The ticker symbol to get the dividend data for (e.g. AAPL)",
                 <<>>, "") >>)

getEtfHoldingsDefinition ==
    Descriptor("get_etf_holdings",
        "Get the holdings data for a specific ETF",
        << Field("ticker", "string",
                 "The ticker symbol of the ETF (e.g. SPY)", <<>>, "") >>)

getExchangeRateDefinition ==
    Descriptor("get_exchange_rate",
        "Get the exchange rate between two currencies (fiat or crypto)",
        << Field("fromCurrency", "string",
                 "The currency to convert from (e.g. USD, BTC)", <<>>, ""),
           Field("toCurrency", "string",
                 "The currency to convert to (e.g. EUR, ETH)", <<>>, "") >>)

\* The static registry, in the order of its keys.
toolDefinitions ==
    << getTickerOhlcvDefinition, getTickerDividendDefinition,
       getEtfHoldingsDefinition, getExchangeRateDefinition >>

\* The zod schemas listToolsHandler builds its input schemas from.
ZodString(name, description) ==
    [name |-> name, kind |-> "string", values |-> <<>>, regex |-> "",
     description |-> description]

ZodEnum(name, values, description) ==
    [name |-> name, kind |-> "enum", values |-> values, regex |-> "",
     description |-> description]

ZodRegex(name, regex, description) ==
    [name |-> name, kind |-> "string", values |-> <<>>, regex |-> regex,
     description |-> description]

\* zodToJsonSchema(z.object(shape)): each member becomes a property of type
\* string with the description, the enum values and the pattern of its schema.
zodToJsonSchema(shape) ==
    [i \in DOMAIN shape |->
        Field(shape[i].name, "string", shape[i].description,
              shape[i].values, shape[i].regex)]

\* The tools listToolsHandler.handler answers with.
ListedTools ==
    << Descriptor("get_ticker_ohlcv",
            "Get specific ticker OHLCV data (Open, High, Low, Close, Volume)",
            zodToJsonSchema(
                << ZodString("ticker",
                       "The ticker symbol to get the price for (e.g. AAPL)"),
                   ZodEnum("infoType", InfoTypeEnum,
                       "The type of ticker information to get (open, close, high, low, volume)"),
                   ZodRegex("date", DatePattern,
                       "The date for which to get the OHLCV data (YYYY-MM-DD)") >>)),
       Descriptor("get_ticker_dividend",
            "Get dividend data for a specific ticker",
            zodToJsonSchema(
                << ZodString("ticker",
                       "The ticker symbol of the ETF (e.g. AAPL)") >>)),
       Descriptor("get_etf_holdings",
            "Get the holdings data for a specific ETF",
            zodToJsonSchema(
                << ZodString("ticker",
                       "The ticker symbol of the ETF (e.g. SPY)") >>)),
       Descriptor("get_exchange_rate",
            "Get the exchange rate between two currencies (fiat or crypto)",
            zodToJsonSchema(
                << ZodString("fromCurrency",
                       "The currency to convert from (e.g. USD, BTC)"),
                   ZodString("toCurrency",
                       "The currency to convert to (e.g. EUR, ETH)") >>)) >>

NoRequest == [name |-> "", arguments |-> AbsentArgs]

NoReply == Resolved(Data(NoSeries, NoList, NoList, NoRate))

\* History of an answer: how it compares to the answer given just before it.
\* "same" and "differs" tell that the invocation before had the same request
\* and the same upstream reply, and whether its outcome was the same.
Repeat(req, asked, reply, out) ==
    IF last.settled /\ last.req = req /\ last.asked = asked
         /\ last.reply = reply
    THEN IF last.out = out THEN "same" ELSE "differs"
    ELSE "no"

\* A settled invocation: `settled` tells it from the initial placeholder and
\* `asked` whether the handler's upstream request was issued for it.  `tools`
\* is empty but in the answer to a list-tools request.  The last two fields
\* are history: `repeat` as above, and `prevError` that the answer before
\* this one was an error result.
Settled(req, asked, reply, out) ==
    [settled |-> TRUE, req |-> req, asked |-> asked, reply |-> reply,
     out |-> out, tools |-> <<>>,
     repeat |-> Repeat(req, asked, reply, out),
     prevError |-> (last.out.kind = "result" /\ last.out.isError = "true")]

NoneSettled ==
    [settled |-> FALSE, req |-> NoRequest, asked |-> FALSE, reply |-> NoReply,
     out |-> NoOutcome, tools |-> <<>>, repeat |-> "no", prevError |-> FALSE]

\* The answer to a list-tools request.
Listed(tools) == [NoneSettled EXCEPT !.tools = tools]

----------------------------------------------------------------------------
(* The process. *)

Init ==
    /\ apiKey \in {Undefined, Str(""), Str("demo")}
    /\ phase = "starting"
    /\ inflight = EmptyBag
    /\ last = NoneSettled
    /\ accepted = 0
    /\ httpRequests = 0
    /\ configErrors = 0
    /\ everConcurrent = FALSE

\* main(): server.connect(transport) resolves and the server serves.
Connect ==
    /\ phase = "starting"
    /\ phase' = "serving"
    /\ UNCHANGED <<apiKey, inflight, last, accepted, httpRequests, configErrors,
                   everConcurrent>>

\* main().catch: server.connect rejects, the error is logged, process.exit(1).
ConnectFails ==
    /\ phase = "starting"
    /\ phase' = "exited"
    /\ UNCHANGED <<apiKey, inflight, last, accepted, httpRequests, configErrors,
                   everConcurrent>>

\* The rejection as a startup-fatal check would make it: the process exits.
RejectMissingKeyFatal(req) ==
    /\ last' = Settled(req, FALSE, NoReply, Thrown(ConfigError))
    /\ configErrors' = configErrors + 1
    /\ phase' = "exited"
    /\ UNCHANGED <<inflight, httpRequests, everConcurrent>>

\* if (!apiKey) throw: the invocation is rejected with the configuration
\* error.  Nothing else happens: the throw is inside the request handler, so
\* the process goes on serving.
RejectMissingKey(req) ==
    /\ last' = Settled(req, FALSE, NoReply, Thrown(ConfigError))
    /\ configErrors' = configErrors + 1
    /\ UNCHANGED <<phase, inflight, httpRequests, everConcurrent>>

\* A call-tool request reaches callToolHandler.handler, which runs up to its
\* first suspension: the credential check, the switch, the handler's
\* destructuring and the axios.get it awaits.
CallTool(req) ==
    /\ phase = "serving"
    /\ accepted < MaxInvocations
    /\ accepted' = accepted + 1
    /\ IF KeyMissing(apiKey)
       THEN RejectMissingKey(req)
       ELSE IF ~IsRegistered(req.name)
       THEN /\ last' = Settled(req, FALSE, NoReply, ToolNotFound(req.name))
            /\ UNCHANGED <<phase, inflight, httpRequests, configErrors,
                           everConcurrent>>
       ELSE IF ~req.arguments.present
       THEN /\ last' = Settled(req, FALSE, NoReply,
                         Thrown(DestructureOfUndefined(FirstDestructured(req.name))))
            /\ UNCHANGED <<phase, inflight, httpRequests, configErrors,
                           everConcurrent>>
       ELSE /\ BagCardinality(inflight) < MaxInFlight
            /\ inflight' = inflight (+) SetToBag({req})
            /\ httpRequests' = httpRequests + 1
            /\ everConcurrent' = (everConcurrent \/ inflight # EmptyBag)
            /\ UNCHANGED <<phase, last, configErrors>>
    /\ UNCHANGED apiKey

\* The axios.get of a suspended invocation settles and its handler runs to
\* its return.
\* The handlers keeping the arguments of the invocation dispatched last in
\* one place they all read: a request that settles while another is in
\* flight is answered from the other's arguments.
UpstreamSettlesShared(req, reply) ==
    /\ BagIn(req, inflight)
    /\ LET others == BagToSet(inflight (-) SetToBag({req}))
           args == IF others = {} THEN req.arguments
                   ELSE (CHOOSE o \in others : TRUE).arguments
       IN  last' = Settled(req, TRUE, reply,
                           HandlerResult([req EXCEPT !.arguments = args],
                                         reply))
    /\ inflight' = inflight (-) SetToBag({req})
    /\ UNCHANGED <<apiKey, phase, accepted, httpRequests, configErrors,
                   everConcurrent>>

\* The handlers ending the process when they return an error result.
UpstreamSettlesFatal(req, reply) ==
    /\ BagIn(req, inflight)
    /\ last' = Settled(req, TRUE, reply, HandlerResult(req, reply))
    /\ inflight' = inflight (-) SetToBag({req})
    /\ phase' = IF HandlerResult(req, reply).isError = "true"
                THEN "exited" ELSE phase
    /\ UNCHANGED <<apiKey, accepted, httpRequests, configErrors,
                   everConcurrent>>

UpstreamSettles(req, reply) ==
    /\ BagIn(req, inflight)
    /\ last' = Settled(req, TRUE, reply, HandlerResult(req, reply))
    /\ inflight' = inflight (-) SetToBag({req})
    /\ UNCHANGED <<apiKey, phase, accepted, httpRequests, configErrors,
                   everConcurrent>>

\* A list-tools request: listToolsHandler.handler answers with its four
\* descriptors.  It reads no state and writes none but its answer.
ListTools ==
    /\ phase = "serving"
    /\ last' = Listed(ListedTools)
    /\ UNCHANGED <<apiKey, phase, inflight, accepted, httpRequests,
                   configErrors, everConcurrent>>

Next ==
    \/ Connect
    \/ ConnectFails
    \/ ListTools
    \/ \E n \in ToolNames : \E a \in Bags(n) :
            CallTool([name |-> n, arguments |-> a])
    \/ \E req \in BagToSet(inflight) : \E reply \in Replies(req.name) :
            UpstreamSettles(req, reply)

Spec == Init /\ [][Next]_vars

----------------------------------------------------------------------------
(* Properties. *)

\* The settled invocation ran one of the four handlers with the credential
\* present.
HandlerRan ==
    /\ last.settled
    /\ Truthy(apiKey)
    /\ last.req.name \in RegisteredTools

\* C1: with the credential present, every invocation of one of the four
\* handlers ends in a returned ToolResult and never in an exception that
\* leaves the handler, whatever the argument bag (also an absent one) and
\* whatever the upstream outcome.
C1_HandlerAlwaysReturns == HandlerRan => last.out.kind = "result"

\* C2: with the credential present, an invocation whose tool name is not
\* exactly one of the four registered names returns the error result
\* `Tool <name> not found.`.
C2_UnknownToolNotFound ==
    (last.settled /\ Truthy(apiKey) /\ last.req.name \notin RegisteredTools)
        => last.out = [kind |-> "result",
                       text |-> "Tool " \o last.req.name \o " not found.",
                       isError |-> "true"]

\* A name that differs from a registered one only in case is not found.
C2_Witness ==
    /\ last.settled
    /\ last.req.name = "Get_Ticker_Ohlcv"
    /\ last.out.text = "Tool Get_Ticker_Ohlcv not found."
    /\ last.out.isError = "true"

\* C3: with the credential empty or absent no invocation, of a registered
\* name or not, runs a handler, issues an upstream request or returns a
\* ToolResult: each fails with the configuration error before the dispatch.
C3_NoKeyNoTool ==
    (apiKey = Undefined \/ apiKey = Str(""))
        => /\ httpRequests = 0
           /\ inflight = EmptyBag
           /\ last.settled =>
                /\ ~last.asked
                /\ last.out.kind = "thrown"
                /\ last.out.text = "ALPHAVANTAGE_API_KEY is not set"

\* An invocation of a registered tool fails on the empty credential.
C3_Witness ==
    /\ apiKey = Str("")
    /\ last.settled
    /\ last.req.name = "get_ticker_ohlcv"
    /\ last.req.arguments.present
    /\ last.out.kind = "thrown"

\* C4, as claimed: once the missing credential has been surfaced, no further
\* tool invocation is accepted.
C4_FatalOnce == [][configErrors > 0 => accepted' = accepted]_vars

\* C4, amended: the missing credential is surfaced by every invocation, one
\* configuration error each, and the process goes on serving after it.
C4_SurfacedPerInvocation ==
    (apiKey = Undefined \/ apiKey = Str(""))
        => /\ configErrors = accepted
           /\ configErrors > 0 => phase = "serving"

\* A second invocation is accepted after the first configuration error.
C4_Witness ==
    /\ configErrors = 2
    /\ accepted = 2
    /\ phase = "serving"

\* The settled invocation ran a handler up to its upstream request, which
\* has settled.
Answered(name) == HandlerRan /\ last.asked /\ last.req.name = name

\* The entries of the date-keyed mapping the settled OHLCV invocation got.
SeriesEntries == last.reply.data.series.entries

\* The date the settled OHLCV invocation is about: its date argument, or the
\* first key of the mapping when the argument is "".
AskedDate ==
    IF last.req.arguments.date = Str("") THEN SeriesEntries[1].key
    ELSE ToStr(last.req.arguments.date)

\* The date-keyed mapping is present and, when the date argument is "", has
\* a first key.
SeriesUsable ==
    /\ last.reply.ok
    /\ last.reply.data.series.t = "obj"
    /\ last.req.arguments.date = Str("") => SeriesEntries # <<>>

RecognizedInfoTypes == {"open", "high", "low", "close", "volume"}

\* The upstream field an infoType names.
FieldOf(infoType, record) ==
    CASE infoType = "open"   -> record.open
      [] infoType = "high"   -> record.high
      [] infoType = "low"    -> record.low
      [] infoType = "close"  -> record.close
      [] infoType = "volume" -> record.volume

\* The upstream response of the settled invocation carries the fields its
\* tool displays, and the request names what to display.
ExpectedFieldsPresent ==
    /\ last.reply.ok
    /\ CASE last.req.name = "get_ticker_ohlcv" ->
              /\ SeriesUsable
              /\ last.req.arguments.infoType.s \in RecognizedInfoTypes
              /\ \E i \in DOMAIN SeriesEntries :
                    /\ SeriesEntries[i].key = AskedDate
                    /\ SeriesEntries[i].val.t = "obj"
                    /\ FieldOf(last.req.arguments.infoType.s,
                               SeriesEntries[i].val).t = "str"
         [] last.req.name = "get_ticker_dividend" ->
              /\ last.reply.data.data.t = "arr"
              /\ \A i \in DOMAIN last.reply.data.data.items :
                    LET item == last.reply.data.data.items[i]
                    IN  /\ item.t = "obj"
                        /\ item.ex_dividend_date.t = "str"
                        /\ item.amount.t = "str"
         [] last.req.name = "get_etf_holdings" ->
              /\ last.reply.data.holdings.t = "arr"
              /\ \A i \in DOMAIN last.reply.data.holdings.items :
                    LET item == last.reply.data.holdings.items[i]
                    IN  /\ item.t = "obj"
                        /\ item.description.t = "str"
                        /\ item.symbol.t = "str"
                        /\ item.weight.t = "str"
         [] OTHER ->
              /\ last.reply.data.rate.t = "obj"
              /\ last.reply.data.rate.rate.t = "str"

\* The settled invocation did not succeed: no handler for the name, a failed
\* upstream call, the structure the tool reads absent from the response, or
\* an infoType that is none of the five.
NonSuccess ==
    \/ ~last.asked
    \/ ~last.reply.ok
    \/ CASE last.req.name = "get_ticker_ohlcv" ->
              \/ last.reply.data.series.t # "obj"
              \/ ~\E i \in DOMAIN SeriesEntries :
                    /\ SeriesEntries[i].key =
                         (IF last.req.arguments.date = Str("")
                          THEN SeriesEntries[1].key
                          ELSE ToStr(last.req.arguments.date))
                    /\ SeriesEntries[i].val.t = "obj"
              \/ last.req.arguments.infoType.t # "str"
              \/ last.req.arguments.infoType.s \notin RecognizedInfoTypes
         [] last.req.name = "get_ticker_dividend" ->
              \/ last.reply.data.data.t # "arr"
              \/ \E i \in DOMAIN last.reply.data.data.items :
                    last.reply.data.data.items[i].t # "obj"
         [] last.req.name = "get_etf_holdings" ->
              \/ last.reply.data.holdings.t # "arr"
              \/ \E i \in DOMAIN last.reply.data.holdings.items :
                    last.reply.data.holdings.items[i].t # "obj"
         [] OTHER ->
              last.reply.data.rate.t # "obj"

C6_OhlcvSuccessText ==
    (Answered("get_ticker_ohlcv") /\ SeriesUsable
       /\ last.req.arguments.infoType.s \in RecognizedInfoTypes)
        => \A i \in DOMAIN SeriesEntries :
              LET field == FieldOf(last.req.arguments.infoType.s,
                                   SeriesEntries[i].val)
              IN  (/\ SeriesEntries[i].key = AskedDate
                   /\ SeriesEntries[i].val.t = "obj"
                   /\ field.t = "str")
                    => /\ last.out.kind = "result"
                       /\ last.out.text =
                            "The " \o last.req.arguments.infoType.s \o " for "
                              \o last.req.arguments.ticker.s \o " on "
                              \o SeriesEntries[i].key \o " is " \o field.s

\* The documented example: the close of AAPL on 2024-01-02.
C6_Witness ==
    /\ Answered("get_ticker_ohlcv")
    /\ last.req.arguments.infoType = Str("close")
    /\ last.req.arguments.date = Str("2024-01-02")
    /\ last.out.text = "The close for AAPL on 2024-01-02 is 185.64"

\* The settled request with another date argument.
WithDate(req, date) == [req EXCEPT !.arguments.date = Str(date)]

\* The settled reply with the entries of its mapping in reverse order.
Reversed(reply) ==
    LET e == reply.data.series.entries
    IN  [reply EXCEPT !.data.series.entries =
            [i \in DOMAIN e |-> e[Len(e) + 1 - i]]]

\* C7: with date "" the result is the one the same invocation gives with
\* date set to the first key of the upstream mapping; with a non-empty date
\* the order of the mapping's keys does not change the result.
C7_DateResolution ==
    (Answered("get_ticker_ohlcv") /\ SeriesUsable)
        => IF last.req.arguments.date = Str("")
           THEN last.out = handleGetTickerOhlcv(
                              WithDate(last.req, SeriesEntries[1].key),
                              last.reply)
           ELSE last.out = handleGetTickerOhlcv(last.req, Reversed(last.reply))

\* date "" against a mapping whose first key is the later of its two dates.
C7_Witness ==
    /\ Answered("get_ticker_ohlcv")
    /\ last.req.arguments.date = Str("")
    /\ Len(SeriesEntries) = 2
    /\ SeriesEntries[1].key = "2024-01-03"
    /\ last.out.text = "The close for AAPL on 2024-01-03 is 184.25"

\* C8: whenever the upstream call succeeds and there is no record at
\* actualDate, the OHLCV result is the error
\* `No data found for <ticker> on <actualDate>.`, a returned not-found
\* outcome and not the transport-failure one.
C8_NoRecordNotFound ==
    (/\ Answered("get_ticker_ohlcv")
     /\ last.reply.ok
     /\ last.req.arguments.date.t = "str"
     /\ last.req.arguments.date # Str("")
     /\ ~\E i \in DOMAIN SeriesEntries :
            /\ SeriesEntries[i].key = last.req.arguments.date.s
            /\ SeriesEntries[i].val.t = "obj")
        => last.out = [kind |-> "result",
                       text |-> "No data found for "
                                  \o ToStr(last.req.arguments.ticker) \o " on "
                                  \o last.req.arguments.date.s \o ".",
                       isError |-> "true"]

\* The failure texts the handlers document, by tool.
FailurePrefix(req) ==
    CASE req.name = "get_ticker_ohlcv" ->
            "Failed to get the " \o ToStr(req.arguments.infoType)
              \o " price for " \o ToStr(req.arguments.ticker) \o ". Error: "
      [] req.name = "get_ticker_dividend" ->
            "Failed to get the dividend data for "
              \o ToStr(req.arguments.ticker) \o ". Error: "
      [] req.name = "get_etf_holdings" ->
            "Failed to get the holdings data for "
              \o ToStr(req.arguments.ticker) \o ". Error: "
      [] OTHER ->
            "Failed to get the exchange rate for "
              \o ToStr(req.arguments.fromCurrency) \o " to "
              \o ToStr(req.arguments.toCurrency) \o ". Error: "

\* C9: when the upstream call fails with an error whose message is m, each
\* handler returns the error result whose text is its failure template with
\* <message> replaced by m, the same m in all four handlers.
C9_TransportFailureText ==
    (HandlerRan /\ last.asked /\ ~last.reply.ok)
        => last.out = [kind |-> "result",
                       text |-> FailurePrefix(last.req)
                                  \o last.reply.err.message,
                       isError |-> "true"]

\* The lines of a list, each after a newline.
RECURSIVE LinesAfterHeader(_)
LinesAfterHeader(lines) ==
    IF lines = <<>> THEN ""
    ELSE LinesAfterHeader(SubSeq(lines, 1, Len(lines) - 1))
            \o "\n" \o lines[Len(lines)]

\* What C10 expects of a list handler: the list the tool reads, the
\* no-data text, the header and the rendering of one record.
ListOutcomeAsClaimed(list, noData, header, Line(_)) ==
    /\ (last.out.kind = "result" /\ last.out.isError = "true"
          /\ last.out.text = noData)
         <=> (last.reply.ok /\ list.t # "arr")
    /\ (/\ last.reply.ok
        /\ list.t = "arr"
        /\ \A i \in DOMAIN list.items : list.items[i].t = "obj")
         => /\ last.out.kind = "result"
            /\ last.out.isError # "true"
            /\ last.out.text =
                 IF list.items = <<>> THEN header \o "\n"
                 ELSE header \o LinesAfterHeader(
                        [i \in DOMAIN list.items |-> Line(list.items[i])])

C10_DividendLine(item) ==
    "Ex-Dividend Date: " \o ToStr(item.ex_dividend_date) \o ", Amount: "
        \o ToStr(item.amount)

C10_HoldingLine(item) ==
    "Holding: " \o ToStr(item.description) \o " (" \o ToStr(item.symbol)
        \o "), Weight: " \o ToStr(item.weight)

\* C10: the dividend and holdings results are the error
\* `No dividend data found for <ticker>.` / `No holdings data found for
\* <ticker>.` exactly when the upstream sequence is absent; a present
\* sequence of n >= 0 records gives a non-error result, the header followed
\* by the n rendered lines in upstream order joined by newlines, so an empty
\* sequence gives the header with no line after it.
C10_ListRendering ==
    /\ Answered("get_ticker_dividend")
         => ListOutcomeAsClaimed(
                last.reply.data.data,
                "No dividend data found for "
                    \o ToStr(last.req.arguments.ticker) \o ".",
                "Dividend history for " \o ToStr(last.req.arguments.ticker)
                    \o ":",
                C10_DividendLine)
    /\ Answered("get_etf_holdings")
         => ListOutcomeAsClaimed(
                last.reply.data.holdings,
                "No holdings data found for "
                    \o ToStr(last.req.arguments.ticker) \o ".",
                "Holdings for " \o ToStr(last.req.arguments.ticker) \o ":",
                C10_HoldingLine)

\* A present, empty dividend sequence: the header alone and no error.
C10_Witness ==
    /\ Answered("get_ticker_dividend")
    /\ last.reply.ok
    /\ last.reply.data.data = List(<<>>)
    /\ last.out.text = "Dividend history for AAPL:\n"
    /\ last.out.isError = "absent"

\* C11: when the upstream response lacks the 'Realtime Currency Exchange
\* Rate' sub-object the exchange-rate result is the error
\* `Could not retrieve exchange rate for <fromCurrency> to <toCurrency>.`;
\* otherwise it is the non-error text
\* `The exchange rate from <fromCurrency> to <toCurrency> is <rate>`, <rate>
\* being the upstream string of the '5. Exchange Rate' field, unmodified.
C11_ExchangeRateText ==
    (Answered("get_exchange_rate") /\ last.reply.ok)
        => LET a == last.req.arguments
               priceData == last.reply.data.rate
           IN  /\ priceData.t # "obj"
                    => last.out =
                         [kind |-> "result",
                          text |-> "Could not retrieve exchange rate for "
                                     \o ToStr(a.fromCurrency) \o " to "
                                     \o ToStr(a.toCurrency) \o ".",
                          isError |-> "true"]
               /\ (priceData.t = "obj" /\ priceData.rate.t = "str")
                    => /\ last.out.kind = "result"
                       /\ last.out.isError # "true"
                       /\ last.out.text =
                            "The exchange rate from " \o ToStr(a.fromCurrency)
                              \o " to " \o ToStr(a.toCurrency) \o " is "
                              \o priceData.rate.s

\* The sub-object is missing from a successful response.
C11_Witness ==
    /\ Answered("get_exchange_rate")
    /\ last.reply.ok
    /\ last.reply.data.rate.t = "undef"
    /\ last.out.text = "Could not retrieve exchange rate for USD to EUR."
    /\ last.out.isError = "true"

\* C12: whenever a field the tool reads or displays is missing from the
\* upstream response (the date-keyed mapping, the record at the date, the
\* OHLCV field the infoType selects, the dividend or holdings sequence or a
\* field of one of its records, the rate sub-object or its rate field), the
\* handler returns an error-flagged ToolResult.
C12_MissingFieldFlagged ==
    (HandlerRan /\ last.asked /\ last.reply.ok /\ ~ExpectedFieldsPresent)
        => (last.out.kind = "result" /\ last.out.isError = "true")

\* C13: every answer to a list-tools request holds exactly the four
\* descriptors get_ticker_ohlcv, get_ticker_dividend, get_etf_holdings,
\* get_exchange_rate in that order, each identical in name, description,
\* input fields and their descriptions to the descriptor the static registry
\* declares for that name.
C13_ListedAsDeclared ==
    last.tools # <<>>
        => /\ Len(last.tools) = 4
           /\ \A i \in 1 .. 4 :
                /\ last.tools[i].name = toolDefinitions[i].name
                /\ last.tools[i].description = toolDefinitions[i].description
                /\ Len(last.tools[i].fields) = Len(toolDefinitions[i].fields)
                /\ \A j \in DOMAIN toolDefinitions[i].fields :
                     /\ last.tools[i].fields[j].name =
                            toolDefinitions[i].fields[j].name
                     /\ last.tools[i].fields[j].description =
                            toolDefinitions[i].fields[j].description


C15_OneRequestPerInvocation ==
    [][LET issued == httpRequests' - httpRequests
       IN  ~KeyMissing(apiKey) =>
             /\ accepted' = accepted + 1 =>
                   IF inflight' # inflight
                   THEN /\ issued = 1
                        /\ last' = last
                        /\ \E req \in BagToSet(inflight') :
                              /\ IsRegistered(req.name)
                              /\ inflight' = inflight (+) SetToBag({req})
                   ELSE issued = IF IsRegistered(last'.req.name) THEN 1 ELSE 0
             /\ accepted' = accepted => issued = 0]_vars

\* The settled OHLCV invocation found a record at the date it is about, and
\* its infoType is none of the five the switch knows.
InvalidInfoTypeOnRecord ==
    /\ Answered("get_ticker_ohlcv")
    /\ SeriesUsable
    /\ \E i \in DOMAIN SeriesEntries :
          /\ SeriesEntries[i].key = AskedDate
          /\ SeriesEntries[i].val.t = "obj"
    /\ ~(/\ last.req.arguments.infoType.t = "str"
         /\ last.req.arguments.infoType.s \in RecognizedInfoTypes)

\* C16 as stated: OHLCV, when the record at actualDate is present and
\* infoType is not one of open, high, low, close, volume, the result is an
\* error ToolResult (isError=true) whose text is exactly
\* `Invalid infoType: <value>`.
C16_InvalidInfoTypeBare ==
    InvalidInfoTypeOnRecord
        => /\ last.out.kind = "result"
           /\ last.out.isError = "true"
           /\ last.out.text =
                "Invalid infoType: " \o ToStr(last.req.arguments.infoType)

\* C16 amended: in that case the result is an error ToolResult
\* (isError=true) whose text is
\* `Failed to get the <value> price for <ticker>. Error: Invalid infoType: <value>`:
\* the thrown message reaches the caller inside the failure text of the
\* handler's catch block.
C16_InvalidInfoTypeWrapped ==
    InvalidInfoTypeOnRecord
        => /\ last.out.kind = "result"
           /\ last.out.isError = "true"
           /\ last.out.text =
                "Failed to get the " \o ToStr(last.req.arguments.infoType)
                  \o " price for " \o ToStr(last.req.arguments.ticker)
                  \o ". Error: Invalid infoType: "
                  \o ToStr(last.req.arguments.infoType)

\* vwap asked of a day whose record is there.
C16_Witness ==
    /\ InvalidInfoTypeOnRecord
    /\ last.req.arguments.infoType = Str("vwap")
    /\ last.out.isError = "true"
    /\ last.out.text =
         "Failed to get the vwap price for AAPL. Error: Invalid infoType: vwap"

\* C17: concurrent invocations are independent.  Whenever an upstream
\* response arrives while several invocations are in flight, in whatever
\* order, the step answers exactly one of them, with the ToolResult its
\* handler produces from that invocation's own arguments and own response,
\* and leaves every other invocation in flight as it was.
C17_ConcurrentIndependent ==
    [][(BagCardinality(inflight) > 1
          /\ BagCardinality(inflight') < BagCardinality(inflight))
        => /\ last'.settled
           /\ last'.asked
           /\ BagIn(last'.req, inflight)
           /\ inflight' = inflight (-) SetToBag({last'.req})
           /\ last'.reply \in Replies(last'.req.name)
           /\ last'.out = HandlerResult(last'.req, last'.reply)]_vars

\* Two invocations of different tools were in flight at once; the one
\* dispatched for get_exchange_rate has been answered from its own reply
\* while the other still waits for its response.
C17_Witness ==
    /\ everConcurrent
    /\ accepted = 2
    /\ Answered("get_exchange_rate")
    /\ last.out.text = "The exchange rate from USD to EUR is 0.9123"
    /\ \E req \in BagToSet(inflight) : req.name = "get_ticker_ohlcv"

\* The outcome of an invocation that nothing preceded: the not-found result
\* of the dispatcher, the TypeError of a handler given no arguments, or the
\* handler's result for the reply its request got.
AnsweredAlone(req, asked, reply) ==
    IF ~IsRegistered(req.name) THEN ToolNotFound(req.name)
    ELSE IF ~asked
    THEN Thrown(DestructureOfUndefined(FirstDestructured(req.name)))
    ELSE HandlerResult(req, reply)

\* C18: recoverable errors do not stop the server.  After an invocation
\* that ends in an unknown-tool result or in a handler-level error result
\* the process is still serving, and the invocation answered next has the
\* outcome it would have had with no failed invocation before it.
C18_ErrorsRecoverable ==
    /\ (last.out.kind = "result" /\ last.out.isError = "true")
          => phase = "serving"
    /\ last.prevError
          => /\ phase = "serving"
             /\ last.settled
             /\ last.out = AnsweredAlone(last.req, last.asked, last.reply)

\* One invocation at a time: the first ended in an error result, the second
\* was dispatched afterwards and has been answered with a success.
C18_Witness ==
    /\ ~everConcurrent
    /\ accepted = 2
    /\ httpRequests = 2
    /\ inflight = EmptyBag
    /\ phase = "serving"
    /\ last.prevError
    /\ last.asked
    /\ last.out.kind = "result"
    /\ last.out.isError = "absent"
=============================================================================
